---- MODULE Spec2Model ----
(***************************************************************************)
(* The single-page swipe navigator of the reader:                          *)
(*   src/src/modules/reader/hooks/useSwipeNavigate.ts                      *)
(*                                                                         *)
(* The hook keeps five pieces of React state, four refs, one pending       *)
(* animation-frame callback and the deferred commit timer.  The handlers   *)
(* read the touch session and the transition flag through refs that two    *)
(* effects copy from the state after a render (lines 96-102).  touchstart  *)
(* and touchend are discrete events: React renders the updates of their    *)
(* handlers and runs the resulting effects before the next event is        *)
(* delivered, so those handlers end with the ref synchronisation.  The     *)
(* updates made by the setTimeout callback are rendered later, in a task   *)
(* of their own: RenderEffects is that step.                               *)
(*                                                                         *)
(* The environment puts down and lifts up to MaxFingers fingers; a         *)
(* touch-start or touch-move reports as many touches as fingers are down,  *)
(* a touch-end reports the lifted finger's position.  The hook's arguments *)
(* are chosen at the start and stay as they are.  requestAnimationFrame    *)
(* and setTimeout callbacks run at any later moment.                       *)
(*                                                                         *)
(* Coordinates are integer pixels and the clock is in milliseconds.  The   *)
(* value null of the source is the record null for the touch session, the  *)
(* string "null" for previewDirection and 0 for animationFrameRef (the     *)
(* source tests the handle for truthiness, and frame handles are nonzero). *)
(***************************************************************************)
EXTENDS Integers, Sequences, FiniteSets

\* ---------------------------------------------------------------- constants
EDGE_SWIPE_THRESHOLD == 30
MIN_PREVIEW_DISTANCE == 5
FLING_TIME == 300
FLING_DISTANCE == 50

\* ------------------------------------------------------------------- bounds
innerWidth == 200
TickMs == 300
MaxTicks == 1
MaxFingers == 2
MaxPages == 2

\* Positions a touch can report, and the settings the hook can be given.
Xs == {30, 40, 100, 106}
Ys == {100, 160}
Thresholds == {0, 25, 100}
ReadingModes == {"SINGLE_PAGE", "CONTINUOUS_VERTICAL"}
ReadingDirections == {"LTR", "RTL"}
TransitionPageModes == {"NONE", "BOTH"}

null == [isNull |-> TRUE]

VARIABLES
    props,              \* the hook's arguments (lines 30-41)
    touchStart, isSwiping, scrollOffset, previewDirection, isTransitioning,
    animationFrameRef, currentOffsetRef, touchStartRef, isTransitioningRef,
    frames,             \* requestAnimationFrame callbacks not yet run
    timers,             \* setTimeout callbacks not yet run, in firing order
    mounted,            \* FALSE once the component is torn down
    now,                \* Date.now()
    fingers,            \* the fingers on the surface, in the order put down
    defaultPrevented,   \* whether the touch event handled last had its default prevented
    \* the record of the session opened last
    sid,                \* its number, alternating between 0 and 1
    opens,              \* the openPage calls made for it
    lastOpen,           \* the last openPage call
    hLeV,               \* |dx| <= |dy| at each of its touch-moves and touch-ends
    lastEnd,            \* what the touch-end that closed it measured
    lastStart           \* what became of the last touch-start

stateVars == <<touchStart, isSwiping, scrollOffset, previewDirection, isTransitioning>>
refVars == <<animationFrameRef, currentOffsetRef, touchStartRef, isTransitioningRef>>
envVars == <<frames, timers, mounted, now, fingers>>
logVars == <<sid, opens, lastOpen, hLeV, lastEnd, lastStart>>
vars == <<props, stateVars, refVars, envVars, defaultPrevented, logVars>>

Abs(n) == IF n < 0 THEN -n ELSE n

\* ------------------------------------------------------------ pure parts

\* the band without its last pixel
InEdgeBand_Strict(clientX) == clientX < EDGE_SWIPE_THRESHOLD

\* line 123 (and line 74): the touch is in the band kept for the system gesture
InEdgeBand(clientX) == clientX <= EDGE_SWIPE_THRESHOLD

\* a touch-start taken whatever the transition flag says
StartBlocked_Never == FALSE

\* line 117: no touch-start is taken while a transition is in flight
StartBlocked == isTransitioningRef

\* line 119: the touch-start is one the hook tracks
StartTracked(nTouches) ==
    /\ nTouches = 1
    /\ props.readingMode = "SINGLE_PAGE"
    /\ props.isSinglePageSwipeEnabled

\* lines 150-156: the touch-move is ignored
MoveIgnored(nTouches) ==
    \/ touchStartRef = null
    \/ nTouches # 1
    \/ props.readingMode # "SINGLE_PAGE"
    \/ ~props.isSinglePageSwipeEnabled
    \/ isTransitioningRef

\* line 178: the frame callback shows the preview
ShowsPreview(absDeltaX, deltaY) ==
    absDeltaX > deltaY /\ absDeltaX > MIN_PREVIEW_DISTANCE

\* the preview direction taken from the swipe alone
PreviewDirectionFor_IgnoresReadingDirection(readingDirection, deltaX) ==
    IF deltaX < 0 THEN "next" ELSE "previous"

\* lines 181-187: the direction of the preview
PreviewDirectionFor(readingDirection, deltaX) ==
    IF readingDirection = "LTR"
    THEN (IF deltaX < 0 THEN "next" ELSE "previous")
    ELSE (IF deltaX < 0 THEN "previous" ELSE "next")

\* line 216: distance > window.innerWidth * (swipePreviewThreshold / 100), for
\* the thresholds of Thresholds, whose hundredth is a binary fraction
OverTriggerThreshold(distance, swipePreviewThreshold) ==
    distance * 100 > innerWidth * swipePreviewThreshold

\* line 220
IsFling(swipeTime, distance) ==
    swipeTime < FLING_TIME /\ distance > FLING_DISTANCE

\* the trigger without the fling
ShouldTrigger_NoFling(swipeTime, distance, deltaY) ==
    OverTriggerThreshold(distance, props.swipePreviewThreshold) /\ distance > deltaY

\* the trigger without the comparison with the vertical distance
ShouldTrigger_NoDominance(swipeTime, distance, deltaY) ==
    \/ IsFling(swipeTime, distance)
    \/ OverTriggerThreshold(distance, props.swipePreviewThreshold)

\* line 221
ShouldTrigger(swipeTime, distance, deltaY) ==
    \/ IsFling(swipeTime, distance)
    \/ (OverTriggerThreshold(distance, props.swipePreviewThreshold) /\ distance > deltaY)

\* line 227
TargetOffset(deltaX) == IF deltaX > 0 THEN innerWidth ELSE -innerWidth

\* lines 232 and 238: the argument of openPage
CommitDirection(deltaX) == IF deltaX < 0 THEN "next" ELSE "previous"

\* cancelAnimationFrame(handle): the callback with that handle will not run
CancelAnimationFrame_Noop(handle) == frames

CancelAnimationFrame(handle) == {f \in frames : f.id # handle}

\* requestAnimationFrame returns a handle no outstanding request has; only the
\* equality of handles is ever used, so the model takes the least positive one
\* that is neither pending nor still held by animationFrameRef
FreshHandle ==
    LET used == {f.id : f \in frames} \cup {animationFrameRef}
    IN CHOOSE h \in 1..(Cardinality(frames) + 2) :
           h \notin used /\ \A k \in 1..(h - 1) : k \in used

\* ------------------------------------------------------- the page collection

\* the url of the image with a logical index
Url(index) == [url |-> index]

\* the logical index of the primary image of entry k, when entry j shows
\* width[j] images (1, or 2 for a spread)
RECURSIVE PrimaryIndex(_, _)
PrimaryIndex(width, k) ==
    IF k = 1 THEN 0 ELSE PrimaryIndex(width, k - 1) + width[k - 1]

\* ReaderStatePages['pages'] (line 20): entries of one image or of a spread,
\* the logical indexes running through them
PagesOf(width) ==
    [k \in 1..Len(width) |->
        LET first == PrimaryIndex(width, k)
        IN [primary |-> [index |-> first, url |-> Url(first)],
            secondary |-> IF width[k] = 2
                          THEN [index |-> first + 1, url |-> Url(first + 1)]
                          ELSE null]]

PageCollections ==
    {PagesOf(width) : width \in UNION {[1..n -> {1, 2}] : n \in 1..MaxPages}}

\* the logical indexes of an entry
IndexesOf(page) ==
    {page.primary.index} \cup
        (IF page.secondary = null THEN {} ELSE {page.secondary.index})

\* the collections of the reader with a current page that is one of theirs
ReaderPages ==
    {[pages |-> pages, currentPageIndex |-> index] :
        pages \in PageCollections, index \in 0..(2 * MaxPages - 1)}

\* the position, counted from 0, of the entry that holds pageIndex: what
\* getPage(pageIndex, pages) returns as pagesIndex (line 12, line 255)
getPage(pageIndex, pages) ==
    [pagesIndex |-> CHOOSE k \in 0..(Len(pages) - 1) :
                        pageIndex \in IndexesOf(pages[k + 1])]

\* getNextPageIndex(direction, pagesIndex, pages) (line 12, line 265): the
\* logical index of the entry next to pagesIndex in the direction, the first
\* and the last entry having themselves as neighbour
getNextPageIndex(direction, pagesIndex, pages) ==
    IF direction = "previous"
    THEN pages[(IF pagesIndex - 1 < 0 THEN 0 ELSE pagesIndex - 1) + 1].primary.index
    ELSE pages[(IF pagesIndex + 1 > Len(pages) - 1
                THEN Len(pages) - 1 ELSE pagesIndex + 1) + 1].primary.index

\* the boundary test without its 'previous' half
IsBoundary_NextOnly(direction, pagesIndex, length) ==
    direction = "next" /\ pagesIndex = length - 1

\* lines 261-263
IsBoundary(direction, pagesIndex, length) ==
    \/ (direction = "previous" /\ pagesIndex = 0)
    \/ (direction = "next" /\ pagesIndex = length - 1)

\* previewPageIndex being null
NoIndex == -1

\* line 255
currentPage == getPage(props.currentPageIndex, props.pages)

\* lines 257-266
previewPageIndex ==
    IF previewDirection = "null" \/ props.transitionPageMode # "NONE"
    THEN NoIndex
    ELSE IF IsBoundary(previewDirection, currentPage.pagesIndex, Len(props.pages))
    THEN NoIndex
    ELSE getNextPageIndex(previewDirection, currentPage.pagesIndex, props.pages)

\* lines 268-277
previewPageUrl ==
    IF previewPageIndex = NoIndex
    THEN null
    ELSE LET found == {k \in 1..Len(props.pages) :
                          previewPageIndex \in IndexesOf(props.pages[k])}
         IN IF found = {}
            THEN null
            ELSE LET previewPage ==
                         props.pages[CHOOSE k \in found : \A j \in found : k <= j]
                 IN IF previewPage.primary.index = previewPageIndex
                    THEN previewPage.primary.url
                    ELSE previewPage.secondary.url

\* ---------------------------------------------------------------- Init

\* lines 42-52
InitHook ==
    /\ touchStart = null
    /\ isSwiping = FALSE
    /\ scrollOffset = 0
    /\ previewDirection = "null"
    /\ isTransitioning = FALSE
    /\ animationFrameRef = 0
    /\ currentOffsetRef = 0
    /\ touchStartRef = null
    /\ isTransitioningRef = FALSE
    /\ frames = {}
    /\ timers = <<>>
    /\ mounted = TRUE
    /\ now = 0
    /\ fingers = <<>>
    /\ defaultPrevented = FALSE
    /\ sid = 0
    /\ opens = 0
    /\ lastOpen = null
    /\ hLeV = TRUE
    /\ lastEnd = null
    /\ lastStart = "none"

\* the reader shows the second of three single pages
Init ==
    /\ props \in [readingMode : ReadingModes,
                  readingDirection : ReadingDirections,
                  swipePreviewThreshold : Thresholds,
                  isSinglePageSwipeEnabled : BOOLEAN,
                  isSwipeAnimationEnabled : BOOLEAN,
                  pages : {PagesOf(<<1, 1, 1>>)},
                  currentPageIndex : {1},
                  transitionPageMode : {"NONE"}]
    /\ InitHook

\* the swipe navigator over every page collection
InitPreview ==
    /\ \E reader \in ReaderPages :
          /\ \E k \in 1..Len(reader.pages) :
                reader.currentPageIndex \in IndexesOf(reader.pages[k])
          /\ props \in [readingMode : {"SINGLE_PAGE"},
                        readingDirection : ReadingDirections,
                        swipePreviewThreshold : {25},
                        isSinglePageSwipeEnabled : {TRUE},
                        isSwipeAnimationEnabled : {TRUE},
                        pages : {reader.pages},
                        currentPageIndex : {reader.currentPageIndex},
                        transitionPageMode : TransitionPageModes]
    /\ InitHook

\* ------------------------------------------------------------- the hook

\* the reset without setPreviewDirection(null)
ResetSwipeState_KeepsPreview ==
    /\ touchStart' = null
    /\ isSwiping' = FALSE
    /\ scrollOffset' = 0
    /\ UNCHANGED previewDirection
    /\ currentOffsetRef' = 0

\* lines 57-63
ResetSwipeState ==
    /\ touchStart' = null
    /\ isSwiping' = FALSE
    /\ scrollOffset' = 0
    /\ previewDirection' = "null"
    /\ currentOffsetRef' = 0

\* lines 96-102, run with the render of a discrete event's updates
SyncRefs ==
    /\ touchStartRef' = touchStart'
    /\ isTransitioningRef' = isTransitioning'

\* openPage(direction), called for session s with the closure's deltaX
OpenPage(direction, deltaX, s) ==
    /\ opens' = IF s = sid THEN opens + 1 ELSE opens
    /\ lastOpen' = [direction |-> direction, leftSwipe |-> deltaX < 0,
                    latest |-> s = sid, mounted |-> mounted]

\* lines 115-146
handleTouchStart(nTouches, clientX, clientY) ==
    IF StartBlocked
    THEN /\ lastStart' = "blocked"
         /\ UNCHANGED <<stateVars, refVars, frames, sid, opens, lastOpen, hLeV, lastEnd>>
    ELSE IF ~StartTracked(nTouches)
    THEN /\ lastStart' = "ignored"
         /\ UNCHANGED <<stateVars, refVars, frames, sid, opens, lastOpen, hLeV, lastEnd>>
    ELSE IF InEdgeBand(clientX)
    THEN /\ lastStart' = "edge"
         /\ UNCHANGED <<stateVars, refVars, frames, sid, opens, lastOpen, hLeV, lastEnd>>
    ELSE /\ frames' = CancelAnimationFrame(animationFrameRef)
         /\ animationFrameRef' = 0
         /\ touchStart' = [x |-> clientX, y |-> clientY, time |-> now]
         /\ isSwiping' = FALSE
         /\ scrollOffset' = 0
         /\ previewDirection' = "null"
         /\ currentOffsetRef' = 0
         /\ UNCHANGED isTransitioning
         /\ SyncRefs
         /\ sid' = 1 - sid
         /\ opens' = 0
         /\ lastOpen' = null
         /\ hLeV' = TRUE
         /\ lastEnd' = null
         /\ lastStart' = "opened"

TouchStart(clientX, clientY) ==
    /\ mounted
    /\ Len(fingers) < MaxFingers
    /\ fingers' = Append(fingers, [edge |-> clientX <= EDGE_SWIPE_THRESHOLD])
    /\ handleTouchStart(Len(fingers) + 1, clientX, clientY)
    /\ defaultPrevented' = FALSE
    /\ UNCHANGED <<props, timers, mounted, now>>

\* the displacement of an event from the open session's origin keeps |dx| <= |dy|
KeepsVertical(clientX, clientY) ==
    Abs(clientX - touchStart.x) <= Abs(clientY - touchStart.y)

NoteDisplacement(clientX, clientY) ==
    IF touchStart # null
    THEN hLeV' = (hLeV /\ KeepsVertical(clientX, clientY))
    ELSE UNCHANGED hLeV

\* lines 148-197
\* lines 65-93: the touchmove listener added to the container, and whether it
\* calls preventDefault on an event
ListenerPreventsDefault(nTouches, clientX) ==
    /\ props.readingMode = "SINGLE_PAGE" /\ props.isSinglePageSwipeEnabled
    /\ props.readingMode = "SINGLE_PAGE" /\ nTouches = 1
    /\ ~(clientX <= EDGE_SWIPE_THRESHOLD)

handleTouchMove(nTouches, clientX, clientY) ==
    IF MoveIgnored(nTouches)
    THEN UNCHANGED <<refVars, frames>>
    ELSE IF props.isSwipeAnimationEnabled
    THEN LET deltaX == clientX - touchStartRef.x
             deltaY == Abs(clientY - touchStartRef.y)
             absDeltaX == Abs(deltaX)
         IN /\ currentOffsetRef' = deltaX
            /\ frames' = CancelAnimationFrame(animationFrameRef) \cup
                   {[id |-> FreshHandle, deltaX |-> deltaX, absDeltaX |-> absDeltaX,
                     deltaY |-> deltaY, readingDirection |-> props.readingDirection,
                     session |-> sid]}
            /\ animationFrameRef' = FreshHandle
            /\ UNCHANGED <<touchStartRef, isTransitioningRef>>
    ELSE UNCHANGED <<refVars, frames>>

TouchMove(clientX, clientY) ==
    /\ mounted
    /\ Len(fingers) >= 1
    /\ defaultPrevented' = ListenerPreventsDefault(Len(fingers), clientX)
    /\ handleTouchMove(Len(fingers), clientX, clientY)
    /\ NoteDisplacement(clientX, clientY)
    /\ UNCHANGED <<props, stateVars, timers, mounted, now, fingers,
                   sid, opens, lastOpen, lastEnd, lastStart>>

\* the callback with the offset set only under the preview condition
FrameCallback_OffsetOnlyWithPreview(f) ==
    /\ f \in frames
    /\ frames' = frames \ {f}
    /\ IF mounted
       THEN /\ IF ShowsPreview(f.absDeltaX, f.deltaY)
               THEN /\ scrollOffset' = currentOffsetRef
                    /\ isSwiping' = TRUE
                    /\ previewDirection' = PreviewDirectionFor(f.readingDirection, f.deltaX)
               ELSE /\ UNCHANGED scrollOffset
                    /\ isSwiping' = FALSE
                    /\ previewDirection' = "null"
       ELSE UNCHANGED <<scrollOffset, isSwiping, previewDirection>>
    /\ UNCHANGED <<props, touchStart, isTransitioning, refVars,
                   timers, mounted, now, fingers, defaultPrevented, logVars>>

\* the callback that keeps the preview direction when the preview condition fails
FrameCallback_KeepsPreviewDirection(f) ==
    /\ f \in frames
    /\ frames' = frames \ {f}
    /\ IF mounted
       THEN /\ scrollOffset' = currentOffsetRef
            /\ IF ShowsPreview(f.absDeltaX, f.deltaY)
               THEN /\ isSwiping' = TRUE
                    /\ previewDirection' = PreviewDirectionFor(f.readingDirection, f.deltaX)
               ELSE /\ isSwiping' = FALSE
                    /\ UNCHANGED previewDirection
       ELSE UNCHANGED <<scrollOffset, isSwiping, previewDirection>>
    /\ UNCHANGED <<props, touchStart, isTransitioning, refVars,
                   timers, mounted, now, fingers, defaultPrevented, logVars>>

\* lines 174-193: the callback handed to requestAnimationFrame
FrameCallback(f) ==
    /\ f \in frames
    /\ frames' = frames \ {f}
    /\ IF mounted
       THEN /\ scrollOffset' = currentOffsetRef
            /\ IF ShowsPreview(f.absDeltaX, f.deltaY)
               THEN /\ isSwiping' = TRUE
                    /\ previewDirection' = PreviewDirectionFor(f.readingDirection, f.deltaX)
               ELSE /\ isSwiping' = FALSE
                    /\ previewDirection' = "null"
       ELSE UNCHANGED <<scrollOffset, isSwiping, previewDirection>>
    /\ UNCHANGED <<props, touchStart, isTransitioning, refVars,
                   timers, mounted, now, fingers, defaultPrevented, logVars>>

\* lines 224-236: the transition is started and the commit deferred
StartTransition(deltaX) ==
    /\ isTransitioning' = TRUE
    /\ touchStart' = null
    /\ scrollOffset' = TargetOffset(deltaX)
    /\ currentOffsetRef' = TargetOffset(deltaX)
    /\ timers' = Append(timers, [deltaX |-> deltaX, session |-> sid])
    /\ UNCHANGED <<isSwiping, previewDirection, opens, lastOpen>>

\* the commit without the reset that follows it
CommitNow_KeepsSession(deltaX) ==
    /\ OpenPage(CommitDirection(deltaX), deltaX, sid)
    /\ UNCHANGED <<touchStart, isSwiping, scrollOffset, previewDirection,
                   currentOffsetRef, isTransitioning, timers>>

\* the commit deferred although the animation is disabled
CommitNow_Deferred(deltaX) == StartTransition(deltaX)

\* lines 238-241: the commit without animation
CommitNow(deltaX) ==
    /\ OpenPage(CommitDirection(deltaX), deltaX, sid)
    /\ ResetSwipeState
    /\ UNCHANGED <<isTransitioning, timers>>

\* lines 208 and 241: nothing is committed
Release ==
    /\ ResetSwipeState
    /\ UNCHANGED <<isTransitioning, timers, opens, lastOpen>>

\* lines 199-253
handleTouchEnd(clientX, clientY) ==
    /\ frames' = CancelAnimationFrame(animationFrameRef)
    /\ animationFrameRef' = 0
    /\ IF \/ touchStartRef = null
          \/ props.readingMode # "SINGLE_PAGE"
          \/ ~props.isSinglePageSwipeEnabled
       THEN Release /\ UNCHANGED lastEnd
       ELSE LET deltaX == clientX - touchStartRef.x
                deltaY == Abs(clientY - touchStartRef.y)
                distance == Abs(deltaX)
                swipeTime == now - touchStartRef.time
            IN /\ lastEnd' = [quick |-> swipeTime < FLING_TIME,
                              far |-> distance > FLING_DISTANCE,
                              overThreshold |->
                                  distance * 100 > innerWidth * props.swipePreviewThreshold,
                              dominant |-> distance > deltaY]
               /\ IF ShouldTrigger(swipeTime, distance, deltaY)
                  THEN IF props.isSwipeAnimationEnabled
                       THEN StartTransition(deltaX)
                       ELSE CommitNow(deltaX)
                  ELSE Release
    /\ SyncRefs

TouchEnd(i, clientX, clientY) ==
    /\ mounted
    /\ i \in 1..Len(fingers)
    /\ fingers' = [k \in 1..(Len(fingers) - 1) |->
                      IF k < i THEN fingers[k] ELSE fingers[k + 1]]
    /\ handleTouchEnd(clientX, clientY)
    /\ defaultPrevented' = FALSE
    /\ NoteDisplacement(clientX, clientY)
    /\ UNCHANGED <<props, mounted, now, sid, lastStart>>

\* the callback without resetSwipeState
TimerCallback_NoReset ==
    /\ timers # <<>>
    /\ timers' = Tail(timers)
    /\ OpenPage(CommitDirection(Head(timers).deltaX), Head(timers).deltaX,
                Head(timers).session)
    /\ UNCHANGED currentOffsetRef
    /\ IF mounted
       THEN /\ isTransitioning' = FALSE
            /\ UNCHANGED <<touchStart, isSwiping, scrollOffset, previewDirection>>
       ELSE UNCHANGED stateVars
    /\ UNCHANGED <<props, animationFrameRef, touchStartRef, isTransitioningRef,
                   frames, mounted, now, fingers, defaultPrevented,
                   sid, hLeV, lastEnd, lastStart>>

\* the callback without setIsTransitioning(false)
TimerCallback_KeepsTransition ==
    /\ timers # <<>>
    /\ timers' = Tail(timers)
    /\ OpenPage(CommitDirection(Head(timers).deltaX), Head(timers).deltaX,
                Head(timers).session)
    /\ currentOffsetRef' = 0
    /\ IF mounted
       THEN /\ touchStart' = null
            /\ isSwiping' = FALSE
            /\ scrollOffset' = 0
            /\ previewDirection' = "null"
            /\ UNCHANGED isTransitioning
       ELSE UNCHANGED stateVars
    /\ UNCHANGED <<props, animationFrameRef, touchStartRef, isTransitioningRef,
                   frames, mounted, now, fingers, defaultPrevented,
                   sid, hLeV, lastEnd, lastStart>>

\* lines 231-235: the callback handed to setTimeout
TimerCallback ==
    /\ timers # <<>>
    /\ timers' = Tail(timers)
    /\ OpenPage(CommitDirection(Head(timers).deltaX), Head(timers).deltaX,
                Head(timers).session)
    /\ currentOffsetRef' = 0
    /\ IF mounted
       THEN /\ touchStart' = null
            /\ isSwiping' = FALSE
            /\ scrollOffset' = 0
            /\ previewDirection' = "null"
            /\ isTransitioning' = FALSE
       ELSE UNCHANGED stateVars
    /\ UNCHANGED <<props, animationFrameRef, touchStartRef, isTransitioningRef,
                   frames, mounted, now, fingers, defaultPrevented,
                   sid, hLeV, lastEnd, lastStart>>

\* lines 96-102: the effects of the render that follows the timer's updates
RenderEffects ==
    /\ mounted
    /\ touchStartRef # touchStart \/ isTransitioningRef # isTransitioning
    /\ touchStartRef' = touchStart
    /\ isTransitioningRef' = isTransitioning
    /\ UNCHANGED <<props, stateVars, animationFrameRef, currentOffsetRef,
                   envVars, defaultPrevented, logVars>>

\* lines 105-113: the cleanup run when the component is torn down
Unmount ==
    /\ mounted
    /\ mounted' = FALSE
    /\ frames' = CancelAnimationFrame(animationFrameRef)
    /\ animationFrameRef' = 0
    /\ UNCHANGED <<props, stateVars, currentOffsetRef, touchStartRef,
                   isTransitioningRef, timers, now, fingers, defaultPrevented,
                   logVars>>

\* Date.now() advances
Tick ==
    /\ now < MaxTicks * TickMs
    /\ now' = now + TickMs
    /\ UNCHANGED <<props, stateVars, refVars, frames, timers,
                   mounted, fingers, defaultPrevented, logVars>>

Next ==
    \/ \E x \in Xs, y \in Ys : TouchStart(x, y)
    \/ \E x \in Xs, y \in Ys : TouchMove(x, y)
    \/ \E i \in 1..MaxFingers, x \in Xs, y \in Ys : TouchEnd(i, x, y)
    \/ \E f \in frames : FrameCallback(f)
    \/ TimerCallback
    \/ RenderEffects
    \/ Unmount
    \/ Tick

Spec == Init /\ [][Next]_vars

\* one finger swiping along a line, over every page collection
NextPreview ==
    \/ \E x \in Xs : fingers = <<>> /\ TouchStart(x, 100)
    \/ \E x \in Xs : TouchMove(x, 100)
    \/ \E x \in Xs : TouchEnd(1, x, 100)
    \/ \E f \in frames : FrameCallback(f)
    \/ TimerCallback
    \/ RenderEffects

SpecPreview == InitPreview /\ [][NextPreview]_vars

\* the swipe navigator in use: single-page mode, swipe enabled
InitGesture ==
    /\ Init
    /\ props.readingMode = "SINGLE_PAGE"
    /\ props.isSinglePageSwipeEnabled
    /\ props.swipePreviewThreshold = 25

\* a timer handed to setTimeout fires once its delay has passed
FairSpec == InitGesture /\ [][Next]_vars /\ WF_vars(TimerCallback)

\* ------------------------------------------------------------ the claims

\* the direction a swipe resolves to under a reading direction, as the
\* specification states it
Resolved(readingDirection, leftSwipe) ==
    IF readingDirection = "LTR"
    THEN (IF leftSwipe THEN "next" ELSE "previous")
    ELSE (IF leftSwipe THEN "previous" ELSE "next")

Idle ==
    /\ touchStart = null
    /\ ~isSwiping
    /\ scrollOffset = 0
    /\ previewDirection = "null"
    /\ ~isTransitioning

\* C1: openPage is invoked at most once for a gesture, in the animated and in
\* the synchronous commit path: the session opened last has at most one call,
\* and every call and every pending commit timer belongs to that session (no
\* session opens while an older one's commit is still pending).
C1_OpenPageAtMostOnce ==
    /\ opens <= 1
    /\ opens + Len(timers) <= 1
    /\ \A i \in 1..Len(timers) : timers[i].session = sid
    /\ lastOpen # null => lastOpen.latest

\* a gesture committed through the timer, which has fired
C1_Witness ==
    /\ props.isSwipeAnimationEnabled
    /\ opens = 1
    /\ timers = <<>>
    /\ lastEnd # null

\* C2: in a gesture whose horizontal displacement never exceeds the vertical
\* one, at any touch-move and at the touch-end, no preview direction is set and
\* openPage is not invoked.
C2_VerticalGestureNeverHijacked ==
    hLeV => (previewDirection = "null" /\ opens = 0)

\* C3: a frame callback or commit callback pending at teardown or at a new
\* touch-start is cancelled: no frame callback stays pending after teardown or
\* from an older session, and openPage is never invoked after teardown or for
\* an older session.
C3_PendingCallbacksCancelled ==
    /\ \A f \in frames : mounted /\ f.session = sid
    /\ lastOpen # null => (lastOpen.mounted /\ lastOpen.latest)

\* C4: openPage is called with the direction resolved from the physical swipe
\* and the reading direction, the one the preview mapping gives.
C4_CommitDirectionResolved ==
    lastOpen # null =>
        lastOpen.direction = Resolved(props.readingDirection, lastOpen.leftSwipe)

\* C5: the previewDirection a frame callback sets follows the reading
\* direction: while the session is open and a preview is shown, the offset is
\* the finger's displacement, and a leftward one shows 'next' under LTR and
\* 'previous' under RTL, a rightward one the inverse.
C5_PreviewFollowsReadingDirection ==
    (touchStart # null /\ previewDirection # "null") =>
        /\ scrollOffset # 0
        /\ props.readingDirection = "LTR" /\ scrollOffset < 0 => previewDirection = "next"
        /\ props.readingDirection = "LTR" /\ scrollOffset > 0 => previewDirection = "previous"
        /\ props.readingDirection = "RTL" /\ scrollOffset < 0 => previewDirection = "previous"
        /\ props.readingDirection = "RTL" /\ scrollOffset > 0 => previewDirection = "next"

\* a leftward swipe previewed under right-to-left
C5_Witness ==
    /\ touchStart # null
    /\ props.readingDirection = "RTL"
    /\ scrollOffset < 0
    /\ previewDirection = "previous"

\* C6: isTransitioning and an open touch session never hold together.
C6_TransitionExcludesSession ==
    ~(isTransitioning /\ touchStart # null)

\* a touch-start arrived during the transition and was refused
C6_Witness ==
    /\ isTransitioning
    /\ lastStart = "blocked"
    /\ touchStart = null

\* C7: previewDirection is 'previous' or 'next' only while isSwiping or
\* isTransitioning is true.
C7_PreviewOnlyWhileSwipingOrTransitioning ==
    previewDirection # "null" => (isSwiping \/ isTransitioning)

\* a transition that keeps the preview of the swipe
C7_Witness ==
    /\ isTransitioning
    /\ previewDirection # "null"

\* C8: a touch-start at or below the edge band opens no session (the state
\* stays as it was, no session has its origin in the band), and while only
\* such fingers are down no touch-move or touch-end schedules a frame, sets a
\* preview or commits a page change.
C8_EdgeStartNeverTracked ==
    /\ [](touchStart # null => touchStart.x > EDGE_SWIPE_THRESHOLD)
    /\ [][\A x \in Xs, y \in Ys :
            (x <= EDGE_SWIPE_THRESHOLD /\ TouchStart(x, y)) =>
                UNCHANGED <<stateVars, refVars, frames, timers, opens, lastOpen>>]_vars
    /\ [][\A x \in Xs, y \in Ys :
            ( /\ fingers # <<>>
              /\ \A k \in 1..Len(fingers) : fingers[k].edge
              /\ (TouchMove(x, y) \/ \E i \in 1..MaxFingers : TouchEnd(i, x, y)) ) =>
                /\ frames' \subseteq frames
                /\ previewDirection' \in {previewDirection, "null"}
                /\ UNCHANGED <<touchStart, timers, opens, lastOpen>>]_vars

\* a lone finger put down in the band of a reader that tracks swipes
C8_Witness ==
    /\ lastStart = "edge"
    /\ Len(fingers) = 1
    /\ fingers[1].edge
    /\ touchStart = null

\* C9: a touch-end of an open session under 300 ms and over 50 px commits a
\* page change, at once or through the timer, also when the distance is not
\* over swipePreviewThreshold percent of the viewport width.
C9_FlingCommitsBelowThreshold ==
    (lastEnd # null /\ lastEnd.quick /\ lastEnd.far /\ ~lastEnd.overThreshold) =>
        /\ opens + Len(timers) = 1
        /\ timers # <<>> => isTransitioning

\* such a fling, committed
C9_Witness ==
    /\ lastEnd # null
    /\ lastEnd.quick /\ lastEnd.far /\ ~lastEnd.overThreshold
    /\ opens = 1

\* C10: a touch-end of an open session that is neither a fling nor a
\* deliberate drag resets to idle, leaves no callback pending and does not
\* invoke openPage.
C10_ReleaseResetsToIdle ==
    ( /\ lastEnd # null
      /\ ~(lastEnd.quick /\ lastEnd.far)
      /\ ~(lastEnd.overThreshold /\ lastEnd.dominant) ) =>
        /\ Idle
        /\ frames = {}
        /\ timers = <<>>
        /\ opens = 0

\* a slow drag over the percentage threshold but not over the vertical
\* distance, released
C10_Witness ==
    /\ lastEnd # null
    /\ ~lastEnd.quick
    /\ lastEnd.overThreshold /\ ~lastEnd.dominant
    /\ lastEnd.far

\* C11: with previewDirection 'previous' on the first entry of the page
\* collection, or 'next' on the last one, previewPageUrl is null, for every
\* collection, those of a single entry included.
C11_NoPreviewAtBoundary ==
    LET first == props.pages[1]
        last == props.pages[Len(props.pages)]
    IN ( \/ (previewDirection = "previous" /\ props.currentPageIndex \in IndexesOf(first))
         \/ (previewDirection = "next" /\ props.currentPageIndex \in IndexesOf(last)) )
       => previewPageUrl = null

\* a swipe towards the page before the only entry, previews not suppressed
C11_Witness ==
    /\ Len(props.pages) = 1
    /\ props.transitionPageMode = "NONE"
    /\ previewDirection = "previous"
    /\ previewPageUrl = null

\* C12: in the state that follows a call of openPage for a committed gesture,
\* the handler or the timer callback having finished, the state is reset (no
\* session, offset 0, not swiping, no preview direction, not transitioning),
\* on the animated path and on the path without animation; the state of a
\* component that was torn down is not looked at.
C12_CommitResetsState ==
    [][(mounted /\ lastOpen' # lastOpen /\ lastOpen' # null) => Idle']_vars

\* the timer callback has committed and reset, the render that follows it has
\* not run yet
C12_Witness ==
    /\ mounted
    /\ props.isSwipeAnimationEnabled
    /\ opens = 1
    /\ Idle
    /\ isTransitioningRef

\* C13: at most one asynchronous callback is pending at any moment, the
\* frame callbacks and the commit timers counted together.
C13_AtMostOneCallbackPending ==
    Cardinality(frames) + Len(timers) <= 1

\* the commit timer pending after a swipe that showed its preview: the frame
\* callbacks of its touch-moves are gone
C13_Witness ==
    /\ Len(timers) = 1
    /\ frames = {}
    /\ isSwiping
    /\ currentOffsetRef = scrollOffset

\* C16: with the animation disabled isTransitioning is false in every state,
\* no timer is ever scheduled, and a touch-end that triggers has called
\* openPage when its handler returns.
C16_NoTransitionWithoutAnimation ==
    ~props.isSwipeAnimationEnabled =>
        /\ ~isTransitioning
        /\ timers = <<>>
        /\ (lastEnd # null /\ ( \/ (lastEnd.quick /\ lastEnd.far)
                                \/ (lastEnd.overThreshold /\ lastEnd.dominant) ))
               => (opens = 1 /\ lastOpen # null)

\* a touch-end that triggered with the animation disabled
C16_Witness ==
    /\ ~props.isSwipeAnimationEnabled
    /\ lastEnd # null
    /\ lastEnd.overThreshold /\ lastEnd.dominant
    /\ opens = 1

\* C14: the defensive conditions yield no preview and no transition: a
\* touch-end with no open session commits nothing, nothing is previewed or
\* committed while the swipe feature is disabled or the reading mode is not
\* single-page, and a touch-end of a gesture with more than one finger on the
\* surface never calls openPage and never sets isTransitioning.
C14_DefensiveConditionsCommitNothing ==
    /\ []((props.readingMode # "SINGLE_PAGE" \/ ~props.isSinglePageSwipeEnabled)
            => (touchStart = null /\ previewDirection = "null" /\ ~isSwiping
                /\ ~isTransitioning /\ timers = <<>> /\ lastOpen = null))
    /\ [][\A i \in 1..MaxFingers, x \in Xs, y \in Ys :
            (TouchEnd(i, x, y) /\ touchStart = null)
                => (lastOpen' = lastOpen /\ timers' = timers
                    /\ isTransitioning' = isTransitioning
                    /\ previewDirection' = "null")]_vars
    /\ [][\A i \in 1..MaxFingers, x \in Xs, y \in Ys :
            (TouchEnd(i, x, y) /\ Len(fingers) > 1)
                => (lastOpen' = lastOpen /\ timers' = timers
                    /\ isTransitioning' = isTransitioning)]_vars

\* C19: while a transition is in flight under the left-to-right setting,
\* previewDirection is the direction that the pending commit will pass to
\* openPage, never the opposite one and never null.
C19_TransitionPreviewIsCommitDirection ==
    (mounted /\ isTransitioning /\ timers # <<>> /\ props.readingDirection = "LTR")
        => previewDirection = (IF Head(timers).deltaX < 0 THEN "next" ELSE "previous")

\* C20: from the touch-end that starts a transition until the commit timer
\* fires, no step changes the offset, isSwiping or previewDirection.
C20_TransitionStateFrozen ==
    [][(mounted /\ isTransitioning /\ isTransitioning')
          => UNCHANGED <<scrollOffset, isSwiping, previewDirection>>]_vars

\* C15: with the listener installed, a touch-move has its default suppressed
\* exactly when the reading mode is single-page, one finger is on the surface
\* and that finger was put down outside the edge band; the touch-move of a
\* finger put down inside the band is never intercepted, wherever it moved to.
C15_InterceptsByOrigin ==
    [][\A x \in Xs, y \in Ys :
          (TouchMove(x, y) /\ props.isSinglePageSwipeEnabled)
              => (defaultPrevented' <=>
                      ( /\ props.readingMode = "SINGLE_PAGE"
                        /\ Len(fingers) = 1
                        /\ ~fingers[1].edge ))]_vars

\* C18 as stated: while a session is open, every touch-move of the single
\* finger gets a frame callback, and the frame callback that runs sets the
\* offset to the horizontal displacement of the most recent touch-move from
\* the x of the touch-start, whether or not the displacement is mostly
\* horizontal and whether or not the animation setting is enabled.
C18_OffsetFollowsFingerInEverySetting ==
    /\ [][\A x \in Xs, y \in Ys :
            (touchStart # null /\ Len(fingers) = 1 /\ TouchMove(x, y))
                => /\ Cardinality(frames') = 1
                   /\ \A f \in frames' : f.deltaX = x - touchStart.x]_vars
    /\ [][\A f \in frames :
            (mounted /\ f \notin frames' /\ FrameCallback(f))
                => scrollOffset' = f.deltaX]_vars

\* C18: with the animation setting enabled, while a session is open every
\* touch-move of the single finger leaves one frame callback pending, its own,
\* and the frame callback that runs sets the offset to the horizontal
\* displacement of that touch-move from the x of the touch-start, whether or
\* not the displacement is mostly horizontal; when it is not, only isSwiping
\* and previewDirection are cleared. With the animation setting disabled no
\* frame callback is requested and the offset stays 0.
C18_OffsetFollowsFinger ==
    /\ [][\A x \in Xs, y \in Ys :
            (props.isSwipeAnimationEnabled /\ touchStart # null
             /\ Len(fingers) = 1 /\ TouchMove(x, y))
                => /\ Cardinality(frames') = 1
                   /\ \A f \in frames' : f.deltaX = x - touchStart.x]_vars
    /\ [][\A f \in frames :
            (mounted /\ f \notin frames' /\ FrameCallback(f))
                => /\ props.isSwipeAnimationEnabled
                   /\ touchStart # null
                   /\ scrollOffset' = f.deltaX
                   /\ (~(f.absDeltaX > f.deltaY /\ f.absDeltaX > MIN_PREVIEW_DISTANCE)
                          => (~isSwiping' /\ previewDirection' = "null"))]_vars
    /\ [](~props.isSwipeAnimationEnabled => (frames = {} /\ scrollOffset = 0))

\* the offset follows a finger that moves along the diagonal: no preview
C18_Witness ==
    /\ touchStart # null
    /\ scrollOffset # 0
    /\ ~isSwiping
    /\ previewDirection = "null"
    /\ frames = {}

\* C17: a touch-end that arrives with a session open leaves the navigator
\* idle (no session, offset 0, no preview, not transitioning) or in a
\* transition with its commit timer pending; and, the timer firing once its
\* delay has passed, a transition always ends in the idle state, whatever
\* touch events arrive during it, unless the component is torn down first.
C17_EveryGestureReturnsToIdle ==
    /\ [][\A i \in 1..MaxFingers, x \in Xs, y \in Ys :
            (touchStart # null /\ TouchEnd(i, x, y))
                => (Idle' \/ (isTransitioning' /\ touchStart' = null /\ timers' # <<>>))]_vars
    /\ ((mounted /\ isTransitioning) ~> (Idle \/ ~mounted))

\* a transition during which a touch-end arrived and a finger is down again
C17_Witness ==
    /\ mounted
    /\ isTransitioning
    /\ timers # <<>>
    /\ scrollOffset = 0
    /\ fingers # <<>>
    /\ lastStart = "blocked"

\* C21: in every reachable state isSwiping is true exactly when
\* previewDirection is 'previous' or 'next'.
C21_SwipingIffPreviewDirection ==
    isSwiping <=> previewDirection \in {"previous", "next"}

\* a swipe that shows its preview, with the frame callback of a later
\* touch-move still to run
C21_Witness ==
    /\ touchStart # null
    /\ isSwiping
    /\ previewDirection \in {"previous", "next"}
    /\ frames # {}
====
